---- MODULE Spec2Model ----
(***************************************************************************)
(* Model of the Assetto Corsa telemetry backend:                           *)
(*   - DataAnalyzer._detect_track_sections / _merge_track_sections /       *)
(*     _analyze_track_sections   (backend/domain/analysis/analyzer.py)     *)
(*   - DataAnalyzer._identify_corners / _analyze_corners and the choice    *)
(*     of the best and last lap in analyze_session                         *)
(*   - Database.update_personal_records, update_section_records and        *)
(*     save_analysis as analyze_session calls them                         *)
(*     (backend/database/database.py)                                      *)
(*   - TelemetrySystem main loop, on_race_start, stream_telemetry,         *)
(*     on_lap_complete, on_race_end      (backend/main.py)                 *)
(*   - ACTelemetryReader.get_telemetry_snapshot returning None while       *)
(*     is_in_race is true          (backend/domain/telemetry/reader.py)    *)
(*                                                                         *)
(* Units.  Floats of the source are kept as scaled integers:               *)
(*   g_force_lat   hundredths of g          (0.15 g  -> 15)                *)
(*   steering      milliradians                                            *)
(*   speed         tenths of km/h                                          *)
(*   lap times     milliseconds, as the simulator reports them             *)
(***************************************************************************)
EXTENDS Integers, Sequences, FiniteSets, TLC

VARIABLES
    telemetry,      \* segmenter input: the lap's ordered samples
    sections,       \* segmenter output (merged sections)
    analyzed,       \* _analyze_track_sections output
    segPc,          \* "input" -> "detected" -> "analyzed" ("off": not in use)
    personal_records, \* table personal_records: (track, car) -> row
    records_broken,   \* what the last update_personal_records returned
    submitted,        \* history: the (lap time, session) submitted per (track, car), in order
    section_records,  \* table section_records: (track, car) -> section_id -> best_time
    analysisPc,       \* analyze_session's record updates: "idle" -> "personal" ->
                      \* "sections" -> "complete", or "failed" ("off": not in use)
    pending,          \* the analysis in progress, and both tables as they were at its start
    ac,             \* Assetto Corsa shared memory, as get_telemetry_snapshot reads it
    reader_connected, \* TelemetryReader.connected
    sys,            \* TelemetrySystem state-tracking fields
    db,             \* tables sessions, laps, telemetry
    events,         \* lifecycle messages broadcast so far (race_start, lap_complete, race_end)
    hist,           \* history: raw valid flags of the lap in progress, what the last pass did
    unseen,         \* simulator changes since the last pass of the monitor loop
    session_laps,   \* analyze_session input: the session's laps with their samples
    recommendations, \* _analyze_corners output
    cornerPc        \* "input" -> "analyzed" ("off": not in use)

segVars == <<telemetry, sections, analyzed, segPc>>

recVars == <<personal_records, records_broken, submitted,
            section_records, analysisPc, pending>>

trkVars == <<ac, reader_connected, sys, db, events, hist, unseen>>

cornerVars == <<session_laps, recommendations, cornerPc>>

vars == <<telemetry, sections, analyzed, segPc,
          personal_records, records_broken, submitted,
          section_records, analysisPc, pending,
          ac, reader_connected, sys, db, events, hist, unseen,
          session_laps, recommendations, cornerPc>>

----------------------------------------------------------------------------
(* Bounds of the segmenter inputs *)

MaxRuns == 3

\* run lengths on both sides of the 5 / 10 / 15 sample thresholds
RunLens == {1, 4, 5, 9, 10, 14, 15}

Abs(x) == IF x < 0 THEN -x ELSE x

Min(a, b) == IF a < b THEN a ELSE b

Last(s) == s[Len(s)]

ButLast(s) == SubSeq(s, 1, Len(s) - 1)

\* sample prototypes: "S" is below both thresholds, "L" is a corner through
\* the steering threshold only (lateral g <= 0), "R" a corner through lateral g
Proto(c) ==
    CASE c = "S" -> [g_force_lat |-> 10,  steering |-> 50,  speed |-> 1000, n_tires_out |-> 0]
      [] c = "L" -> [g_force_lat |-> -5,  steering |-> 100, speed |-> 1000, n_tires_out |-> 0]
      [] c = "R" -> [g_force_lat |-> 50,  steering |-> 0,   speed |-> 1000, n_tires_out |-> 0]

Classes == {"S", "L", "R"}

RunSet == [cls : Classes, len : RunLens]

RECURSIVE Expand(_)
Expand(runs) ==
    IF runs = <<>> THEN <<>>
    ELSE [k \in 1..runs[1].len |-> Proto(runs[1].cls)] \o Expand(Tail(runs))

RunSeqs == UNION {[1..n -> RunSet] : n \in 0..MaxRuns}

----------------------------------------------------------------------------
(* DataAnalyzer._detect_track_sections *)

\* abs(raw_steering_rad * (180 / math.pi)) in hundredths of a degree
\* (180 / pi = 57.2958 degrees per radian)
SteeringDegAbs(mrad) == (Abs(mrad) * 572958) \div 100000

GLatThreshold == 15

SteeringThreshold == 500

MinSectionPoints == 5

PointType(point) ==
    IF Abs(point.g_force_lat) > GLatThreshold
       \/ SteeringDegAbs(point.steering) > SteeringThreshold
    THEN "corner" ELSE "straight"

NewDirection(point) ==
    IF PointType(point) = "corner"
    THEN (IF point.g_force_lat > 0 THEN "right" ELSE "left")
    ELSE "none"

\* a closed section; direction "none" is Python's None (also a missing key
\* read through .get('direction'))
Section(type, start, end, points, dir) ==
    [type |-> type, start_idx |-> start, end_idx |-> end,
     points |-> points, direction |-> dir]

\* previous_section['points'].extend(...); previous_section['end_idx'] = end
ExtendLast(secs, points, end) ==
    IF secs = <<>> THEN secs
    ELSE ButLast(secs) \o
         << [Last(secs) EXCEPT !.points = @ \o points, !.end_idx = end] >>

InitLoop ==
    [sections |-> <<>>,
     cur |-> [type |-> "none", start_idx |-> 0, points |-> <<>>, direction |-> "none"],
     current_direction |-> "none"]

\* one iteration of `for i, point in enumerate(telemetry)`; i is 0-based
LoopStep(st, i, point) ==
    LET pt  == PointType(point)
        nd  == NewDirection(point)
        cur == st.cur
        fresh(d) == [type |-> pt, start_idx |-> i, points |-> <<point>>, direction |-> d]
    IN
    IF cur.type = "none" THEN
        [st EXCEPT !.cur = [type |-> pt, start_idx |-> i,
                            points |-> cur.points \o <<point>>, direction |-> nd],
                   !.current_direction = nd]
    ELSE IF cur.type = pt THEN
        IF pt = "corner" /\ nd # st.current_direction
           /\ nd # "none" /\ st.current_direction # "none"
        THEN [sections |-> IF Len(cur.points) >= 1
                           THEN Append(st.sections,
                                  Section(cur.type, cur.start_idx, i - 1, cur.points, cur.direction))
                           ELSE st.sections,
              cur |-> fresh(nd),
              current_direction |-> nd]
        ELSE [st EXCEPT !.cur.points = @ \o <<point>>]
    ELSE
        IF Len(cur.points) >= MinSectionPoints
        THEN [sections |-> Append(st.sections,
                              Section(cur.type, cur.start_idx, i - 1, cur.points, cur.direction)),
              cur |-> fresh(nd),
              current_direction |-> nd]
        ELSE \* too short: appended to the previous section if there is one,
             \* else its points are left out; the new section has no
             \* 'direction' key
             [sections |-> ExtendLast(st.sections, cur.points, i - 1),
              cur |-> fresh("none"),
              current_direction |-> nd]

RECURSIVE Loop(_, _, _)
Loop(st, tel, i) ==
    IF i >= Len(tel) THEN st
    ELSE Loop(LoopStep(st, i, tel[i + 1]), tel, i + 1)

\* "Add the last section"
CloseLast(st, n) ==
    IF Len(st.cur.points) >= MinSectionPoints
    THEN Append(st.sections,
           Section(st.cur.type, st.cur.start_idx, n - 1, st.cur.points, st.cur.direction))
    ELSE ExtendLast(st.sections, st.cur.points, n - 1)

RawSections(tel) == CloseLast(Loop(InitLoop, tel, 0), Len(tel))

----------------------------------------------------------------------------
(* DataAnalyzer._merge_track_sections *)

ShortStraightPoints == 15

ShortCornerPoints == 10

\* the merge decision without the basic rule (same type and direction)
ShouldMergeNoBasic(cluster, secs, i) ==
    LET next == secs[i] IN
    IF cluster.type = "corner" /\ next.type = "straight" THEN
        /\ Len(next.points) < ShortStraightPoints
        /\ i + 1 <= Len(secs)
        /\ secs[i + 1].type = "corner"
        /\ secs[i + 1].direction = cluster.direction
    ELSE IF cluster.type = "straight" /\ next.type = "corner" THEN
        /\ Len(next.points) < ShortCornerPoints
        /\ i + 1 <= Len(secs)
        /\ secs[i + 1].type = "straight"
    ELSE FALSE

ShouldMerge(cluster, secs, i) ==
    LET next == secs[i] IN
    IF next.type = cluster.type /\ next.direction = cluster.direction THEN TRUE
    ELSE IF cluster.type = "corner" /\ next.type = "straight" THEN
        /\ Len(next.points) < ShortStraightPoints
        /\ i + 1 <= Len(secs)
        /\ secs[i + 1].type = "corner"
        /\ secs[i + 1].direction = cluster.direction
    ELSE IF cluster.type = "straight" /\ next.type = "corner" THEN
        /\ Len(next.points) < ShortCornerPoints
        /\ i + 1 <= Len(secs)
        /\ secs[i + 1].type = "straight"
    ELSE FALSE

\* the loop `for i in range(1, len(sections))`; i is the 1-based position
\* of next_section
RECURSIVE MergeLoop(_, _, _, _)
MergeLoop(merged, cluster, secs, i) ==
    IF i > Len(secs) THEN Append(merged, cluster)
    ELSE IF ShouldMerge(cluster, secs, i)
         THEN MergeLoop(merged,
                        [cluster EXCEPT !.points = @ \o secs[i].points,
                                        !.end_idx = secs[i].end_idx],
                        secs, i + 1)
         ELSE MergeLoop(Append(merged, cluster), secs[i], secs, i + 1)

MergeTrackSections(secs) ==
    IF secs = <<>> THEN <<>>
    ELSE MergeLoop(<<>>, secs[1], secs, 2)

DetectTrackSections(tel) ==
    IF tel = <<>> THEN <<>>
    ELSE MergeTrackSections(RawSections(tel))

----------------------------------------------------------------------------
(* DataAnalyzer._analyze_track_sections: the speed metrics, the validity   *)
(* of the section and the off-track recommendation                         *)

MaxPoints == 3

\* speeds in tenths of km/h.  No value makes speed * 1.15 or speed * 0.85 fall
\* exactly between two tenths (there the binary float decides the rounding).
SpeedSet == {0, 800, 804, 925, 1000, 1200}

TiresOutSet == {0, 2, 3}

MaxTiresOutValid == 2

RECURSIVE SeqMin(_)
SeqMin(s) ==
    IF Len(s) = 1 THEN s[1]
    ELSE LET m == SeqMin(Tail(s)) IN IF s[1] < m THEN s[1] ELSE m

RECURSIVE SeqMax(_)
SeqMax(s) ==
    IF Len(s) = 1 THEN s[1]
    ELSE LET m == SeqMax(Tail(s)) IN IF s[1] > m THEN s[1] ELSE m

\* round(num / den) to the nearest integer, a tie to the even one
RoundDiv(num, den) ==
    LET q == num \div den
        r == num % den
    IN  IF 2 * r < den THEN q
        ELSE IF 2 * r > den THEN q + 1
        ELSE IF q % 2 = 0 THEN q ELSE q + 1

\* round(speed * 1.15, 1) and round(speed * 0.85, 1), in tenths
ApexMargin(speed) == RoundDiv(speed * 115, 100)

EntryReduced(speed) == RoundDiv(speed * 85, 100)

\* the recommendation without the final "not higher than entry speed" clamp
RecommendedSpeedNoClamp(entry_speed, min_corner_speed) ==
    IF min_corner_speed > 0 /\ min_corner_speed < entry_speed
    THEN ApexMargin(min_corner_speed)
    ELSE EntryReduced(entry_speed)

\* recommended_speed of an invalid corner
RecommendedSpeed(entry_speed, min_corner_speed) ==
    LET first == IF min_corner_speed > 0 /\ min_corner_speed < entry_speed
                 THEN ApexMargin(min_corner_speed)
                 ELSE EntryReduced(entry_speed)
    IN  IF first >= entry_speed THEN EntryReduced(entry_speed) ELSE first

NoSpeed == -1

AnalyzeSection(section, i) ==
    LET points == section.points
        speeds == [k \in 1..Len(points) |-> points[k].speed]
        tires  == [k \in 1..Len(points) |-> points[k].n_tires_out]
        is_valid == SeqMax(tires) <= MaxTiresOutValid
        offTrackCorner == ~is_valid /\ section.type = "corner"
    IN  [section_id |-> i,
         type |-> section.type,
         direction |-> section.direction,
         start_idx |-> section.start_idx,
         end_idx |-> section.end_idx,
         entry_speed |-> speeds[1],
         exit_speed |-> speeds[Len(speeds)],
         min_speed |-> SeqMin(speeds),
         max_speed |-> SeqMax(speeds),
         is_valid |-> is_valid,
         recommendation |-> IF offTrackCorner THEN "Saliste de pista" ELSE "none",
         recommended_speed |-> IF offTrackCorner
                               THEN RecommendedSpeed(speeds[1], SeqMin(speeds))
                               ELSE NoSpeed]

\* sections without points are skipped; section_id is the 1-based position in
\* the input list
RECURSIVE AnalyzeFrom(_, _)
AnalyzeFrom(secs, i) ==
    IF i > Len(secs) THEN <<>>
    ELSE (IF secs[i].points = <<>> THEN <<>> ELSE <<AnalyzeSection(secs[i], i)>>)
         \o AnalyzeFrom(secs, i + 1)

AnalyzeTrackSections(secs) == AnalyzeFrom(secs, 1)

----------------------------------------------------------------------------
(* DataAnalyzer._identify_corners, _analyze_corners and the choice of the   *)
(* best and the last lap in analyze_session.  Steering is kept in           *)
(* thousandths (0.2 -> 200), speed in tenths of km/h (200 -> 2000).         *)

MaxCornerRuns == 2

CornerSteering == 200

CornerSpeedLimit == 2000

MinCornerPoints == 10

ApexSpeedDiff == 30

\* one sample of a clean corner "C", of a corner with three tires out "O",
\* of a straight "S"
CornerProto(c) ==
    CASE c = "C" -> [steering |-> 500, speed |-> 1000, n_tires_out |-> 0]
      [] c = "O" -> [steering |-> 500, speed |-> 1050, n_tires_out |-> 3]
      [] c = "S" -> [steering |-> 0, speed |-> 2000, n_tires_out |-> 0]

CornerRunSet ==
    {[class |-> "C", len |-> 10], [class |-> "C", len |-> 11],
     [class |-> "O", len |-> 11], [class |-> "S", len |-> 1]}

RECURSIVE CornerExpand(_)
CornerExpand(runs) ==
    IF runs = <<>> THEN <<>>
    ELSE [k \in 1..runs[1].len |-> CornerProto(runs[1].class)] \o CornerExpand(Tail(runs))

LapTelemetrySet ==
    {CornerExpand(r) : r \in UNION {[1..n -> CornerRunSet] : n \in 0..MaxCornerRuns}}

\* the rows of table laps of one session, each with its telemetry rows
\* lap_time in ms; 0 is a lap still in progress
SessionLapTimes == {0, 60000, 61000}

SessionLapSet ==
    [lap_time : SessionLapTimes, is_valid : BOOLEAN, telemetry : LapTelemetrySet]

SessionLapCounts == {1, 2}

IsCornerPoint(point) ==
    Abs(point.steering) > CornerSteering /\ point.speed < CornerSpeedLimit

\* _identify_corners: the runs of more than 10 corner points
IdentifyCorners(points) ==
    LET F[k \in 0..Len(points)] ==
            IF k = 0 THEN [corners |-> <<>>, current_corner |-> <<>>]
            ELSE LET p == F[k - 1] IN
                 IF IsCornerPoint(points[k])
                 THEN [p EXCEPT !.current_corner = Append(@, points[k])]
                 ELSE [corners |-> IF Len(p.current_corner) > MinCornerPoints
                                   THEN Append(p.corners, p.current_corner)
                                   ELSE p.corners,
                       current_corner |-> <<>>]
        end == F[Len(points)]
    IN  IF Len(end.current_corner) > MinCornerPoints
        THEN Append(end.corners, end.current_corner)
        ELSE end.corners

MaxTiresOut(corner) == SeqMax([k \in 1..Len(corner) |-> corner[k].n_tires_out])

ApexSpeed(corner) == SeqMin([k \in 1..Len(corner) |-> corner[k].speed])

\* _analyze_corners: walks zip(best_corners, last_corners)
AnalyzeCorners(best_lap, last_lap) ==
    LET best_corners == IdentifyCorners(best_lap)
        last_corners == IdentifyCorners(last_lap)
        n == Min(Len(best_corners), Len(last_corners))
        F[i \in 0..n] ==
            IF i = 0 THEN <<>>
            ELSE IF MaxTiresOut(last_corners[i]) > MaxTiresOutValid
            THEN Append(F[i - 1], [kind |-> "Salida de pista", corner |-> i,
                                   entry_speed |-> last_corners[i][1].speed])
            ELSE IF ApexSpeed(best_corners[i]) - ApexSpeed(last_corners[i]) > ApexSpeedDiff
            THEN Append(F[i - 1], [kind |-> "apice", corner |-> i,
                                   entry_speed |-> last_corners[i][1].speed])
            ELSE F[i - 1]
    IN  F[n]

\* the indexes of the laps with lap_time > 0, in order
CompleteLaps(laps) ==
    LET F[k \in 0..Len(laps)] ==
            IF k = 0 THEN <<>>
            ELSE IF laps[k].lap_time > 0 THEN Append(F[k - 1], k) ELSE F[k - 1]
    IN  F[Len(laps)]

\* min(candidates, key=lap_time): the first of the fastest
FirstFastest(laps, candidates) ==
    LET F[k \in 1..Len(candidates)] ==
            IF k = 1 THEN candidates[1]
            ELSE IF laps[candidates[k]].lap_time < laps[F[k - 1]].lap_time
            THEN candidates[k] ELSE F[k - 1]
    IN  F[Len(candidates)]

\* the fastest valid lap, or the fastest complete lap when none is valid
BestLap(laps) ==
    LET complete == CompleteLaps(laps)
        valid == SelectSeq(complete, LAMBDA k : laps[k].is_valid)
    IN  IF valid # <<>> THEN FirstFastest(laps, valid) ELSE FirstFastest(laps, complete)

LastLap(laps) == Last(CompleteLaps(laps))

\* the corner recommendations of analyze_session
CornerRecommendations(laps) ==
    IF CompleteLaps(laps) = <<>> THEN <<>>
    ELSE AnalyzeCorners(laps[BestLap(laps)].telemetry, laps[LastLap(laps)].telemetry)

----------------------------------------------------------------------------
(* Database.update_personal_records *)

MaxUpdates == 3

\* (track_name, car_name) combinations
Pairs == {"monza/bmw", "imola/bmw"}

\* lap times in tenths of a second (31.9 s, 32.1 s, 33.0 s)
LapTimeSet == {319, 321, 330}

\* a sector argument that is None
NoTime == 0

SectorTimeSet == {NoTime, 105}

\* get_personal_records returns None
NoRecord == [present |-> FALSE]

NothingBroken == [lap |-> FALSE, sector_1 |-> FALSE, sector_2 |-> FALSE, sector_3 |-> FALSE]

AllBroken == [lap |-> TRUE, sector_1 |-> TRUE, sector_2 |-> TRUE, sector_3 |-> TRUE]

\* `sector and (not current_best or sector < current_best)`
SectorBeats(sector, current_best) ==
    sector # NoTime /\ (current_best = NoTime \/ sector < current_best)

\* the lap comparison with the tie counted as a new record
LapBeatsOrTies(lap_time, current_best) == lap_time <= current_best

\* `lap_time < current['best_lap_time']`
LapBeats(lap_time, current_best) == lap_time < current_best

\* the row of (track, car) after the call, and the returned records_broken
UpdatedRecord(current, session_id, lap_time, sector_1, sector_2, sector_3) ==
    IF ~current.present
    THEN [row |-> [present |-> TRUE, best_lap_time |-> lap_time,
                   best_sector_1 |-> sector_1, best_sector_2 |-> sector_2,
                   best_sector_3 |-> sector_3, session_id |-> session_id],
          broken |-> AllBroken]
    ELSE LET lap == LapBeats(lap_time, current.best_lap_time)
             b1  == SectorBeats(sector_1, current.best_sector_1)
             b2  == SectorBeats(sector_2, current.best_sector_2)
             b3  == SectorBeats(sector_3, current.best_sector_3)
         IN  [row |-> [present |-> TRUE,
                       best_lap_time |-> IF lap THEN lap_time ELSE current.best_lap_time,
                       session_id    |-> IF lap THEN session_id ELSE current.session_id,
                       best_sector_1 |-> IF b1 THEN sector_1 ELSE current.best_sector_1,
                       best_sector_2 |-> IF b2 THEN sector_2 ELSE current.best_sector_2,
                       best_sector_3 |-> IF b3 THEN sector_3 ELSE current.best_sector_3],
              broken |-> [lap |-> lap, sector_1 |-> b1, sector_2 |-> b2, sector_3 |-> b3]]

TotalSubmitted == Len(submitted["monza/bmw"]) + Len(submitted["imola/bmw"])

UpdatePersonalRecords ==
    /\ TotalSubmitted < MaxUpdates
    /\ \E p \in Pairs, lap_time \in LapTimeSet, s1, s2, s3 \in SectorTimeSet :
        \* the analysed sessions have increasing ids
        LET sid == TotalSubmitted + 1
            u == UpdatedRecord(personal_records[p], sid, lap_time, s1, s2, s3) IN
        /\ personal_records' = [personal_records EXCEPT ![p] = u.row]
        /\ records_broken' = u.broken
        /\ submitted' = [submitted EXCEPT ![p] = Append(@, [lap_time |-> lap_time, session_id |-> sid])]
    /\ UNCHANGED <<section_records, analysisPc, pending>>
    /\ UNCHANGED <<segVars, trkVars, cornerVars>>

----------------------------------------------------------------------------
(* The record updates of DataAnalyzer.analyze_session: update_personal_  *)
(* records, update_section_records and save_analysis are three calls, each *)
(* with its own connection, commit and rollback; any of them may raise.    *)

MaxAnalyses == 2

MaxSections == 2

SectionIds == 1..MaxSections

\* 'time' of an analysed section
SectionTimeSet == {40, 50}

\* no row for the section: `if not current`
NoSectionRow == -1

NoSectionRecords == [p \in Pairs |-> [i \in SectionIds |-> NoSectionRow]]

SectionAnalyses == UNION {[1..n -> SectionTimeSet] : n \in 0..MaxSections}

NoPending ==
    [session_id |-> 0, pair |-> "monza/bmw", section_analysis |-> <<>>,
     personal_before |-> [p \in Pairs |-> NoRecord],
     sections_before |-> NoSectionRecords]

\* the rows of one (track, car) after update_section_records has committed
UpdatedSections(current, section_analysis) ==
    [i \in SectionIds |->
        IF i > Len(section_analysis) THEN current[i]
        ELSE IF current[i] = NoSectionRow \/ section_analysis[i] < current[i]
        THEN section_analysis[i]
        ELSE current[i]]

\* analyze_session reaches the record updates; update_personal_records
\* commits, or raises after its rollback
AnalysisUpdatePersonal ==
    /\ analysisPc = "idle"
    /\ pending.session_id < MaxAnalyses
    /\ \E p \in Pairs, lap_time \in LapTimeSet, s1 \in SectorTimeSet,
          section_analysis \in SectionAnalyses, raises \in BOOLEAN :
        LET sid == pending.session_id + 1
            u == UpdatedRecord(personal_records[p], sid, lap_time, s1, NoTime, NoTime) IN
        /\ pending' = [session_id |-> sid, pair |-> p,
                       section_analysis |-> section_analysis,
                       personal_before |-> personal_records,
                       sections_before |-> section_records]
        /\ IF raises
           THEN /\ analysisPc' = "failed"
                /\ UNCHANGED <<personal_records, records_broken>>
           ELSE /\ analysisPc' = "personal"
                /\ personal_records' = [personal_records EXCEPT ![p] = u.row]
                /\ records_broken' = u.broken
    /\ UNCHANGED <<submitted, section_records>>
    /\ UNCHANGED <<segVars, trkVars, cornerVars>>

\* `if section_analysis: update_section_records(...)`: all rows of the call
\* are committed together, or none is and the call raises
AnalysisUpdateSections ==
    /\ analysisPc = "personal"
    /\ \E raises \in BOOLEAN :
        IF raises /\ pending.section_analysis # <<>>
        THEN /\ analysisPc' = "failed"
             /\ UNCHANGED section_records
        ELSE /\ analysisPc' = "sections"
             /\ section_records' =
                    [section_records EXCEPT ![pending.pair] =
                        UpdatedSections(@, pending.section_analysis)]
    /\ UNCHANGED <<personal_records, records_broken, submitted, pending>>
    /\ UNCHANGED <<segVars, trkVars, cornerVars>>

\* get_personal_records, get_section_records and save_analysis; the result
\* is returned with analysis_complete = True, or the call raises
AnalysisSave ==
    /\ analysisPc = "sections"
    /\ \E raises \in BOOLEAN :
        analysisPc' = IF raises THEN "failed" ELSE "complete"
    /\ UNCHANGED <<personal_records, records_broken, submitted, section_records, pending>>
    /\ UNCHANGED <<segVars, trkVars, cornerVars>>

\* on_race_end has broadcast the result (analysis_complete = False after an
\* exception) and the tracker is ready for the next session
AnalysisReported ==
    /\ analysisPc \in {"complete", "failed"}
    /\ analysisPc' = "idle"
    /\ UNCHANGED <<personal_records, records_broken, submitted, section_records, pending>>
    /\ UNCHANGED <<segVars, trkVars, cornerVars>>


----------------------------------------------------------------------------
(* TelemetrySystem (backend/main.py).  One pass of the loop of              *)
(* monitor_and_stream is one step; it reads one snapshot of the simulator.  *)
(* The steering-wheel (volante) buffer and the real-time FFB / pedal        *)
(* analyzers do not touch the session and lap state and are left out.       *)

MaxSessions == 2

MaxLaps == 2

MaxSamples == 5

\* simulator changes that one snapshot can show at once
MaxUnseen == 1

\* Python's None for a row id
NoneId == 0

\* speed > 5 km/h, in tenths
MoveThreshold == 50

FlushThreshold == 50

SessionTypes == {"Practice", "Race"}

\* iLastTime values of a completed lap, in ms
LapMsSet == {90000, 95000}

SectorMs == 30000

CruiseSpeed == 1000

IsPractice(session_type) == session_type = "Practice"

NoSectorTimes == [n \in 1..3 |-> NoTime]

\* TelemetrySystem.__init__
SysInit ==
    [current_session_id |-> NoneId,
     current_lap_id |-> NoneId,
     current_lap_number |-> 0,
     lap_telemetry_buffer |-> <<>>,
     in_race |-> FALSE,
     last_completed_lap |-> 0,
     was_connected |-> FALSE,
     car_has_moved |-> FALSE,
     ignore_first_lap |-> FALSE,
     last_sector_index |-> -1,
     sector_times |-> NoSectorTimes,
     current_lap_valid |-> TRUE,
     last_session_index |-> -1,
     current_session_type |-> ""]

DbInit == [sessions |-> <<>>, laps |-> <<>>, telemetry |-> <<>>]

\* what is remembered about the run: the raw valid flags of the lap in
\* progress, the source's lap counter at the last sample seen, and what the
\* last pass of the loop did
HistInit == [invalid_seen |-> FALSE, pattern |-> 0, finalized |-> NoneId,
             finalized_invalid_seen |-> FALSE, finalized_pattern |-> 0,
             discarded |-> FALSE, restarted |-> FALSE,
             seen_counter |-> 0, start_counter |-> 0,
             incremented |-> FALSE, first_increment |-> FALSE,
             broadcast |-> FALSE,
             analysis_raised |-> FALSE, flush_failed |-> FALSE,
             lap_sectors |-> NoSectorTimes, finalized_sectors |-> NoSectorTimes,
             lap_samples |-> 0, finalized_samples |-> 0]

\* what goes wrong during one pass: analyze_session raises,
\* insert_telemetry_batch raises, or get_telemetry_snapshot returns None
\* (a read of the physics or static page fails) while the graphics page
\* still tells is_in_race
NoFault == [analysis_raises |-> FALSE, storage_fails |-> FALSE, unreadable |-> FALSE]

\* the simulator before any session: status off
AcInit ==
    [in_race |-> FALSE,
     session_type |-> "Practice",
     session_index |-> 0,
     completed_laps |-> 0,
     is_valid_lap |-> TRUE,
     speed |-> 0,
     current_sector_index |-> 0,
     last_sector_time |-> 0,
     last_lap_time |-> 0,
     best_lap_time |-> 0]

Event(type, session_id, lap_number, lap_time, is_valid) ==
    [type |-> type, session_id |-> session_id, lap_number |-> lap_number,
     lap_time |-> lap_time, is_valid |-> is_valid, analysis |-> "none"]

\* Database.create_lap: the new row; its id is its position in the table
LapRow(session_id, lap_number) ==
    [session_id |-> session_id, lap_number |-> lap_number, lap_time |-> 0,
     is_valid |-> TRUE, max_speed |-> 0, avg_speed |-> 0,
     sector_times |-> NoSectorTimes]

\* Database.create_session
SessionRow(session_type) ==
    [session_type |-> session_type, ended |-> FALSE, total_laps |-> 0, best_lap_time |-> 0]

\* Database.insert_telemetry_batch(self.lap_telemetry_buffer); buffer = []
\* An empty batch returns at once; a failed insert rolls back and raises, and
\* the buffer is not cleared.
FlushBuffer(w) ==
    IF w.raised \/ w.sys.lap_telemetry_buffer = <<>> THEN w
    ELSE IF w.fault.storage_fails
    THEN [w EXCEPT !.raised = TRUE, !.hist.flush_failed = TRUE]
    ELSE [w EXCEPT !.db.telemetry = @ \o w.sys.lap_telemetry_buffer,
                   !.sys.lap_telemetry_buffer = <<>>]

\* Database.get_lap_telemetry: the speeds of the rows of one lap
LapSpeeds(rows, lap_id) ==
    LET F[k \in 0..Len(rows)] ==
            IF k = 0 THEN <<>>
            ELSE IF rows[k].lap_id = lap_id THEN Append(F[k - 1], rows[k].speed)
            ELSE F[k - 1]
    IN  F[Len(rows)]

RECURSIVE SeqSum(_)
SeqSum(s) == IF s = <<>> THEN 0 ELSE s[1] + SeqSum(Tail(s))

\* on_race_start taking the simulator's lap counter as the last completed lap
OnRaceStartAtCounter(w, snapshot) ==
    LET session_id == Len(w.db.sessions) + 1
        lap_id == Len(w.db.laps) + 1
        is_practice == IsPractice(snapshot.session_type)
    IN  IF w.fault.unreadable THEN [w EXCEPT !.sys.in_race = TRUE] ELSE
        [w EXCEPT
            !.db.sessions = Append(@, SessionRow(snapshot.session_type)),
            !.db.laps = Append(@, LapRow(session_id, 1)),
            !.sys.in_race = TRUE,
            !.sys.current_session_id = session_id,
            !.sys.current_lap_number = IF is_practice THEN -1 ELSE 0,
            !.sys.last_completed_lap = snapshot.completed_laps,
            !.sys.lap_telemetry_buffer = <<>>,
            !.sys.car_has_moved = FALSE,
            !.sys.ignore_first_lap = is_practice,
            !.sys.last_sector_index = -1,
            !.sys.sector_times = NoSectorTimes,
            !.sys.current_lap_id = lap_id,
            !.events = Append(@, Event("race_start", session_id, 0, 0, TRUE)),
            \* a new session starts a new lap
            !.hist.invalid_seen = FALSE,
            !.hist.pattern = 0,
            !.hist.seen_counter = snapshot.completed_laps,
            !.hist.start_counter = snapshot.completed_laps,
            !.hist.lap_sectors = NoSectorTimes,
            !.hist.lap_samples = 0]

\* on_race_start
OnRaceStart(w, snapshot) ==
    LET session_id == Len(w.db.sessions) + 1
        lap_id == Len(w.db.laps) + 1
        is_practice == IsPractice(snapshot.session_type)
    IN  IF w.fault.unreadable THEN [w EXCEPT !.sys.in_race = TRUE] ELSE
        [w EXCEPT
            !.db.sessions = Append(@, SessionRow(snapshot.session_type)),
            !.db.laps = Append(@, LapRow(session_id, 1)),
            !.sys.in_race = TRUE,
            !.sys.current_session_id = session_id,
            !.sys.current_lap_number = IF is_practice THEN -1 ELSE 0,
            !.sys.last_completed_lap = -1,
            !.sys.lap_telemetry_buffer = <<>>,
            !.sys.car_has_moved = FALSE,
            !.sys.ignore_first_lap = is_practice,
            !.sys.last_sector_index = -1,
            !.sys.sector_times = NoSectorTimes,
            !.sys.current_lap_id = lap_id,
            !.events = Append(@, Event("race_start", session_id, 0, 0, TRUE)),
            \* a new session starts a new lap
            !.hist.invalid_seen = FALSE,
            !.hist.pattern = 0,
            !.hist.seen_counter = snapshot.completed_laps,
            !.hist.start_counter = snapshot.completed_laps,
            !.hist.lap_sectors = NoSectorTimes,
            !.hist.lap_samples = 0]

\* the practice branch leaving ignore_first_lap set
DiscardKeepFlag(w, snapshot) ==
    [w EXCEPT
        !.sys.lap_telemetry_buffer = <<>>,
        !.sys.last_completed_lap = snapshot.completed_laps,
        !.hist.invalid_seen = FALSE,
        !.hist.pattern = 0,
        !.hist.discarded = TRUE,
        !.hist.lap_sectors = NoSectorTimes,
        !.hist.lap_samples = 0]

\* on_lap_complete, the practice branch that ignores the first completion
DiscardFirstLap(w, snapshot) ==
    [w EXCEPT
        !.sys.ignore_first_lap = FALSE,
        !.sys.lap_telemetry_buffer = <<>>,
        !.sys.last_completed_lap = snapshot.completed_laps,
        \* the boundary starts a new lap
        !.hist.invalid_seen = FALSE,
        !.hist.pattern = 0,
        !.hist.discarded = TRUE,
        !.hist.lap_sectors = NoSectorTimes,
        !.hist.lap_samples = 0]

\* the UPDATE laps ... WHERE id = current_lap_id of on_lap_complete
FinalizeLap(w, snapshot) ==
    LET lap_id == w.sys.current_lap_id
        speeds == LapSpeeds(w.db.telemetry, lap_id)
        max_speed == IF speeds # <<>> THEN SeqMax(speeds) ELSE 0
        avg_speed == IF speeds # <<>> THEN SeqSum(speeds) \div Len(speeds) ELSE 0
        lap_time == snapshot.last_lap_time
    IN  IF ~w.raised /\ lap_id # NoneId /\ lap_time > 0
        THEN [w EXCEPT
                !.db.laps[lap_id].lap_time = lap_time,
                !.db.laps[lap_id].max_speed = max_speed,
                !.db.laps[lap_id].avg_speed = avg_speed,
                !.db.laps[lap_id].is_valid = w.sys.current_lap_valid,
                !.db.laps[lap_id].sector_times = w.sys.sector_times,
                !.hist.finalized = lap_id,
                !.hist.finalized_invalid_seen = w.hist.invalid_seen,
                !.hist.finalized_pattern = w.hist.pattern,
                !.hist.finalized_sectors = w.hist.lap_sectors,
                !.hist.finalized_samples = w.hist.lap_samples]
        ELSE w

\* on_lap_complete after the flush and the UPDATE: the next lap
StartNextLap(w, snapshot) ==
    LET number == w.sys.current_lap_number + 1
        lap_id == Len(w.db.laps) + 1
        sid == w.sys.current_session_id
    IN  IF w.raised THEN w ELSE
        [w EXCEPT
            !.sys.current_lap_valid = TRUE,
            !.sys.current_lap_number = number,
            !.db.laps = Append(@, LapRow(sid, number + 1)),
            !.sys.current_lap_id = lap_id,
            !.sys.sector_times = NoSectorTimes,
            !.sys.last_sector_index = -1,
            !.db.sessions = IF sid \in 1..Len(w.db.sessions)
                            THEN [@ EXCEPT ![sid].total_laps = number + 1,
                                           ![sid].best_lap_time =
                                               IF snapshot.best_lap_time > 0
                                               THEN snapshot.best_lap_time ELSE 0]
                            ELSE @,
            \* 'is_valid': self.current_lap_valid, read after the reset
            !.events = Append(@, Event("lap_complete", sid, number,
                                       snapshot.last_lap_time, TRUE)),
            !.hist.invalid_seen = FALSE,
            !.hist.pattern = 0,
            !.hist.lap_sectors = NoSectorTimes,
            !.hist.lap_samples = 0]

\* on_lap_complete
OnLapComplete(w, snapshot) ==
    IF w.sys.ignore_first_lap /\ w.sys.current_lap_number = -1
    THEN DiscardFirstLap(w, snapshot)
    ELSE StartNextLap(FinalizeLap(FlushBuffer(w), snapshot), snapshot)

\* the sector bookkeeping without the conversion of the 0-based index
TrackSectorZeroBased(w, snapshot) ==
    LET last == w.sys.last_sector_index
        sector_number == last
        completed == /\ snapshot.current_sector_index # last
                     /\ last >= 0
                     /\ sector_number \in 1..3
                     /\ snapshot.last_sector_time > 0
    IN  [w EXCEPT
            !.sys.sector_times = IF completed
                                 THEN [@ EXCEPT ![sector_number] = snapshot.last_sector_time]
                                 ELSE @,
            !.sys.last_sector_index = snapshot.current_sector_index,
            !.hist.lap_sectors = IF completed
                                 THEN [@ EXCEPT ![sector_number] = snapshot.last_sector_time]
                                 ELSE @]

\* the sector bookkeeping of stream_telemetry
TrackSector(w, snapshot) ==
    LET last == w.sys.last_sector_index
        sector_number == last + 1
        completed == /\ snapshot.current_sector_index # last
                     /\ last >= 0
                     /\ sector_number \in 1..3
                     /\ snapshot.last_sector_time > 0
    IN  [w EXCEPT
            !.sys.sector_times = IF completed
                                 THEN [@ EXCEPT ![sector_number] = snapshot.last_sector_time]
                                 ELSE @,
            !.sys.last_sector_index = snapshot.current_sector_index,
            \* the sector times recorded since the last lap boundary
            !.hist.lap_sectors = IF completed
                                 THEN [@ EXCEPT ![sector_number] = snapshot.last_sector_time]
                                 ELSE @]

\* the raw valid flags of the lap in progress: 1 after false, 2 after
\* false, true and 3 after false, true, false
NextPattern(pattern, is_valid_lap) ==
    CASE pattern = 0 /\ ~is_valid_lap -> 1
      [] pattern = 1 /\ is_valid_lap -> 2
      [] pattern = 2 /\ ~is_valid_lap -> 3
      [] OTHER -> pattern

\* "once AC marks it invalid, it stays invalid for this lap": the raw flag
\* taken as the lap's validity
TrackValidityRaw(w, snapshot) ==
    [w EXCEPT
        !.sys.current_lap_valid = snapshot.is_valid_lap,
        !.hist.invalid_seen = @ \/ ~snapshot.is_valid_lap,
        !.hist.pattern = NextPattern(@, snapshot.is_valid_lap)]

\* "once AC marks it invalid, it stays invalid for this lap"
TrackValidity(w, snapshot) ==
    IF w.raised THEN w ELSE
    [w EXCEPT
        !.sys.current_lap_valid = IF ~snapshot.is_valid_lap THEN FALSE ELSE @,
        !.hist.invalid_seen = @ \/ ~snapshot.is_valid_lap,
        !.hist.pattern = NextPattern(@, snapshot.is_valid_lap)]

\* the write-behind buffer flushed one sample late (len > 50)
BufferSampleLate(w, snapshot) ==
    IF w.raised \/ w.sys.current_lap_id = NoneId THEN w
    ELSE LET b == [w EXCEPT !.sys.lap_telemetry_buffer =
                        Append(@, [lap_id |-> w.sys.current_lap_id,
                                   speed |-> snapshot.speed]),
                            \* the samples buffered since the last lap boundary
                            !.hist.lap_samples = @ + 1]
         IN  IF Len(b.sys.lap_telemetry_buffer) > FlushThreshold
             THEN FlushBuffer(b) ELSE b

\* the write-behind buffer of stream_telemetry
BufferSample(w, snapshot) ==
    IF w.raised \/ w.sys.current_lap_id = NoneId THEN w
    ELSE LET b == [w EXCEPT !.sys.lap_telemetry_buffer =
                        Append(@, [lap_id |-> w.sys.current_lap_id,
                                   speed |-> snapshot.speed]),
                            \* the samples buffered since the last lap boundary
                            !.hist.lap_samples = @ + 1]
         IN  IF Len(b.sys.lap_telemetry_buffer) >= FlushThreshold
             THEN FlushBuffer(b) ELSE b

\* 'type': 'telemetry' sent to the connected clients
Broadcast(w) ==
    IF w.raised THEN w ELSE [w EXCEPT !.hist.broadcast = TRUE]

\* stream_telemetry recording from the first sample on, moving or not
StreamTelemetryUngated(w, snapshot) ==
    LET moved == w.sys.car_has_moved \/ snapshot.speed > MoveThreshold
        up == snapshot.completed_laps > w.hist.seen_counter
        w0 == [w EXCEPT !.sys.car_has_moved = moved,
                        !.hist.seen_counter = snapshot.completed_laps,
                        !.hist.incremented = up,
                        !.hist.first_increment =
                            up /\ w.hist.seen_counter = w.hist.start_counter]
        w1 == TrackSector(w0, snapshot)
        w2 == IF snapshot.completed_laps > w1.sys.last_completed_lap
              THEN OnLapComplete(w1, snapshot) ELSE w1
        w3 == IF w2.raised THEN w2
              ELSE [w2 EXCEPT !.sys.last_completed_lap = snapshot.completed_laps]
        w4 == TrackValidity(w3, snapshot)
    IN  IF w.raised THEN w
        ELSE Broadcast(BufferSample(w4, snapshot))

\* stream_telemetry
StreamTelemetry(w, snapshot) ==
    LET moved == w.sys.car_has_moved \/ snapshot.speed > MoveThreshold
        \* the source's lap counter has gone up since the sample before,
        \* and for the first time in the session
        up == snapshot.completed_laps > w.hist.seen_counter
        w0 == [w EXCEPT !.sys.car_has_moved = moved,
                        !.hist.seen_counter = snapshot.completed_laps,
                        !.hist.incremented = up,
                        !.hist.first_increment =
                            up /\ w.hist.seen_counter = w.hist.start_counter]
        w1 == TrackSector(w0, snapshot)
        w2 == IF snapshot.completed_laps > w1.sys.last_completed_lap
              THEN OnLapComplete(w1, snapshot) ELSE w1
        w3 == IF w2.raised THEN w2
              ELSE [w2 EXCEPT !.sys.last_completed_lap = snapshot.completed_laps]
        w4 == TrackValidity(w3, snapshot)
    IN  IF w.raised \/ w.fault.unreadable THEN w
        ELSE IF ~moved THEN Broadcast(w0)
        ELSE Broadcast(BufferSample(w4, snapshot))

\* analyze_session as on_race_end sees it: it raises, or it finds no lap
\* with lap_time > 0, or it returns the analysis
AnalyzeSession(w, session_id) ==
    IF w.fault.analysis_raises THEN "raises"
    ELSE IF \A k \in 1..Len(w.db.laps) :
                w.db.laps[k].session_id = session_id => w.db.laps[k].lap_time = 0
    THEN "incomplete"
    ELSE "complete"

\* on_race_end without the try / except around analyze_session
OnRaceEndUncaught(w) ==
    LET f == FlushBuffer([w EXCEPT !.sys.in_race = FALSE])
        sid == w.sys.current_session_id
        analysis == AnalyzeSession(f, sid)
        e == IF sid # NoneId
             THEN [f EXCEPT !.db.sessions[sid].ended = TRUE,
                            !.events = Append(@, [Event("race_end", sid, 0, 0, TRUE)
                                                    EXCEPT !.analysis = analysis]),
                            !.hist.analysis_raised = (analysis = "raises")]
             ELSE f
    IN  IF w.raised THEN w
        ELSE IF f.raised THEN f
        ELSE IF sid # NoneId /\ analysis = "raises"
        THEN [f EXCEPT !.db.sessions[sid].ended = TRUE,
                       !.hist.analysis_raised = TRUE,
                       !.raised = TRUE]
        ELSE [e EXCEPT !.sys.current_session_id = NoneId,
                       !.sys.current_lap_id = NoneId,
                       !.sys.current_lap_number = 0]

\* on_race_end
OnRaceEnd(w) ==
    LET f == FlushBuffer([w EXCEPT !.sys.in_race = FALSE])
        sid == w.sys.current_session_id
        analysis == AnalyzeSession(f, sid)
        e == IF sid # NoneId
             THEN [f EXCEPT !.db.sessions[sid].ended = TRUE,
                            !.events = Append(@, [Event("race_end", sid, 0, 0, TRUE)
                                                    EXCEPT !.analysis =
                                                        IF analysis = "raises"
                                                        THEN "error" ELSE analysis]),
                            !.hist.analysis_raised = (analysis = "raises")]
             ELSE f
    IN  IF w.raised THEN w
        ELSE IF f.raised THEN f
        ELSE [e EXCEPT !.sys.current_session_id = NoneId,
                       !.sys.current_lap_id = NoneId,
                       !.sys.current_lap_number = 0]

\* the session check on the index alone
SessionIndexChanged(w, snapshot) ==
    /\ w.sys.in_race
    /\ snapshot.session_index # w.sys.last_session_index

SessionChanged(w, snapshot) ==
    /\ w.sys.in_race
    /\ \/ snapshot.session_index # w.sys.last_session_index
       \/ snapshot.session_type # w.sys.current_session_type

\* the body of `while True` of monitor_and_stream; connected is
\* telemetry_reader.connected after the attempt to connect
MonitorPass(w, connected, snapshot) ==
    IF connected
    THEN LET c  == [w EXCEPT !.sys.was_connected = TRUE]
             w1 == IF ~c.fault.unreadable /\ SessionChanged(c, snapshot)
                   THEN [OnRaceEnd(c) EXCEPT !.hist.restarted = TRUE] ELSE c
             w2 == IF c.fault.unreadable THEN w1
                   ELSE [w1 EXCEPT !.sys.last_session_index = snapshot.session_index,
                                   !.sys.current_session_type = snapshot.session_type]
         IN  IF w1.raised THEN w1
             ELSE IF snapshot.in_race
             THEN StreamTelemetry(IF ~w2.sys.in_race THEN OnRaceStart(w2, snapshot) ELSE w2,
                                  snapshot)
             ELSE IF w2.sys.in_race THEN OnRaceEnd(w2) ELSE w2
    ELSE IF w.sys.was_connected
         THEN LET d == [w EXCEPT !.sys.was_connected = FALSE]
              IN  IF d.sys.in_race THEN OnRaceEnd(d) ELSE d
         ELSE w

\* a pass starts with nothing raised, and the history of what "this pass"
\* did starts empty
StartPass(s, d, e, h, fault) ==
    [sys |-> s, db |-> d, events |-> e,
     hist |-> [h EXCEPT !.finalized = NoneId, !.finalized_invalid_seen = FALSE,
                        !.finalized_pattern = 0, !.discarded = FALSE,
                        !.restarted = FALSE, !.broadcast = FALSE,
                        !.incremented = FALSE, !.first_increment = FALSE,
                        !.analysis_raised = FALSE, !.flush_failed = FALSE,
                        !.finalized_sectors = NoSectorTimes,
                        !.finalized_samples = 0],
     fault |-> fault, raised |-> FALSE]

World == StartPass(sys, db, events, hist, NoFault)

SamplesStored == Len(db.telemetry) + Len(sys.lap_telemetry_buffer)

\* one pass of the loop of monitor_and_stream; TelemetryReader.connect may
\* fail until the simulator's shared memory can be opened.  What a pass
\* raises is caught by the loop, which goes on with the next pass.
MonitorStep(fault) ==
    /\ \E connected \in (IF reader_connected THEN {TRUE} ELSE BOOLEAN) :
        /\ reader_connected' = connected
        /\ LET w == MonitorPass(StartPass(sys, db, events, hist, fault), connected, ac) IN
            /\ sys' = w.sys
            /\ db' = w.db
            /\ events' = w.events
            /\ hist' = w.hist
        /\ unseen' = IF connected THEN 0 ELSE unseen
    /\ UNCHANGED ac
    /\ UNCHANGED <<segVars, recVars, cornerVars>>

\* a pass in which nothing fails
Monitor ==
    /\ SamplesStored < MaxSamples
    /\ MonitorStep(NoFault)

\* a pass in which analyze_session raises if it is called
MonitorAnalysisRaises ==
    /\ SamplesStored < MaxSamples
    /\ MonitorStep([NoFault EXCEPT !.analysis_raises = TRUE])

(* The simulator *)

AcUnchangedRest ==
    /\ unseen < MaxUnseen
    /\ unseen' = unseen + 1
    /\ UNCHANGED <<reader_connected, sys, db, events, hist, segVars, recVars, cornerVars>>

FreshSession(session_type, session_index) ==
    [in_race |-> TRUE,
     session_type |-> session_type,
     session_index |-> session_index,
     completed_laps |-> 0,
     is_valid_lap |-> TRUE,
     speed |-> 0,
     current_sector_index |-> 0,
     last_sector_time |-> 0,
     last_lap_time |-> 0,
     best_lap_time |-> 0]

\* the driver enters a session from the menu
AcStartSession ==
    /\ ~ac.in_race
    /\ Len(db.sessions) < MaxSessions
    /\ \E t \in SessionTypes : ac' = FreshSession(t, 0)
    /\ AcUnchangedRest

\* the driver restarts the session or the event moves to its next session
AcChangeSession ==
    /\ ac.in_race
    /\ Len(db.sessions) < MaxSessions
    /\ \/ ac' = FreshSession(ac.session_type, 1 - ac.session_index)
       \/ \E t \in SessionTypes \ {ac.session_type} : ac' = FreshSession(t, ac.session_index)
    /\ AcUnchangedRest

\* the driver leaves to the menu
AcLeave ==
    /\ ac.in_race
    /\ ac' = [ac EXCEPT !.in_race = FALSE]
    /\ AcUnchangedRest

AcDrive ==
    /\ ac.in_race
    /\ ac.speed = 0
    /\ ac' = [ac EXCEPT !.speed = CruiseSpeed]
    /\ AcUnchangedRest

\* the raw isValidLap flag changes
AcValidFlag ==
    /\ ac.in_race
    /\ ac.speed > 0
    /\ ac' = [ac EXCEPT !.is_valid_lap = ~@]
    /\ AcUnchangedRest

AcNextSector ==
    /\ ac.in_race
    /\ ac.speed > 0
    /\ ac.current_sector_index < 2
    /\ ac' = [ac EXCEPT !.current_sector_index = @ + 1,
                        !.last_sector_time = SectorMs]
    /\ AcUnchangedRest

\* the car crosses the finish line
AcCrossLine ==
    /\ ac.in_race
    /\ ac.speed > 0
    /\ ac.completed_laps < MaxLaps
    /\ \E t \in LapMsSet :
        ac' = [ac EXCEPT !.completed_laps = @ + 1,
                         !.current_sector_index = 0,
                         !.last_sector_time = SectorMs,
                         !.last_lap_time = t,
                         !.best_lap_time = IF @ = 0 THEN t ELSE Min(@, t)]
    /\ AcUnchangedRest

CornerIdle ==
    /\ session_laps = <<>>
    /\ recommendations = <<>>
    /\ cornerPc = "off"

SegIdle ==
    /\ telemetry = <<>>
    /\ sections = <<>>
    /\ analyzed = <<>>
    /\ segPc = "off"

RecIdle ==
    /\ personal_records = [p \in Pairs |-> NoRecord]
    /\ records_broken = NothingBroken
    /\ submitted = [p \in Pairs |-> <<>>]
    /\ section_records = NoSectionRecords
    /\ analysisPc = "off"
    /\ pending = NoPending

TrkIdle ==
    /\ ac = AcInit
    /\ reader_connected = FALSE
    /\ sys = SysInit
    /\ db = DbInit
    /\ events = <<>>
    /\ hist = HistInit
    /\ unseen = 0

RecInit == RecIdle /\ SegIdle /\ TrkIdle /\ CornerIdle

RecNext == UpdatePersonalRecords

SpecRec == RecInit /\ [][RecNext]_vars

AtomicInit ==
    /\ personal_records = [p \in Pairs |-> NoRecord]
    /\ records_broken = NothingBroken
    /\ submitted = [p \in Pairs |-> <<>>]
    /\ section_records = NoSectionRecords
    /\ analysisPc = "idle"
    /\ pending = NoPending
    /\ SegIdle
    /\ TrkIdle
    /\ CornerIdle

AtomicNext ==
    \/ AnalysisUpdatePersonal
    \/ AnalysisUpdateSections
    \/ AnalysisSave
    \/ AnalysisReported

SpecAtomic == AtomicInit /\ [][AtomicNext]_vars

TrkInit == TrkIdle /\ SegIdle /\ RecIdle /\ CornerIdle

TrkNext ==
    \/ Monitor
    \/ AcStartSession
    \/ AcChangeSession
    \/ AcLeave
    \/ AcDrive
    \/ AcValidFlag
    \/ AcNextSector
    \/ AcCrossLine

SpecTrk == TrkInit /\ [][TrkNext]_vars

\* the tracker over sessions whose analysis may fail
FaultNext ==
    \/ Monitor
    \/ MonitorAnalysisRaises
    \/ AcStartSession
    \/ AcChangeSession
    \/ AcLeave
    \/ AcDrive
    \/ AcCrossLine

SpecFault == TrkInit /\ [][FaultNext]_vars

\* a pass at the start of a session in which get_telemetry_snapshot
\* returns None
MonitorUnreadable ==
    /\ SamplesStored < MaxSamples
    /\ ac.in_race
    /\ ~sys.in_race
    /\ MonitorStep([NoFault EXCEPT !.unreadable = TRUE])

\* the tracker over a simulator whose pages cannot always be read
ReadNext ==
    \/ Monitor
    \/ MonitorUnreadable
    \/ AcStartSession
    \/ AcLeave
    \/ AcDrive
    \/ AcCrossLine

SpecRead == TrkInit /\ [][ReadNext]_vars

\* The tracker around the periodic flush: a session is running and the
\* car has been moving for almost FlushThreshold samples.
WarmSnapshot(session_type) == [FreshSession(session_type, 0) EXCEPT !.speed = CruiseSpeed]

RECURSIVE Passes(_, _, _)
Passes(w, snapshot, n) ==
    IF n = 0 THEN w
    ELSE LET v == MonitorPass(StartPass(w.sys, w.db, w.events, w.hist, NoFault),
                              TRUE, snapshot)
         IN  IF v.raised THEN v ELSE Passes(v, snapshot, n - 1)

WarmPasses == {FlushThreshold - 2, FlushThreshold - 1}

StoreCap == FlushThreshold + MaxSamples

StoreInit ==
    /\ \E session_type \in SessionTypes, n \in WarmPasses :
        LET snapshot == WarmSnapshot(session_type)
            w == Passes(StartPass(SysInit, DbInit, <<>>, HistInit, NoFault), snapshot, n)
        IN  /\ ac = snapshot
            /\ sys = w.sys
            /\ db = w.db
            /\ events = w.events
            /\ hist = w.hist
    /\ reader_connected = TRUE
    /\ unseen = 0
    /\ SegIdle
    /\ RecIdle
    /\ CornerIdle

MonitorWarm ==
    /\ SamplesStored < StoreCap
    /\ MonitorStep(NoFault)

\* a pass in which insert_telemetry_batch raises if it is called
MonitorStorageFails ==
    /\ SamplesStored < StoreCap
    /\ MonitorStep([NoFault EXCEPT !.storage_fails = TRUE])

StoreNext ==
    \/ MonitorWarm
    \/ MonitorStorageFails
    \/ AcCrossLine
    \/ AcLeave
    \/ AcStartSession

SpecStore == StoreInit /\ [][StoreNext]_vars

----------------------------------------------------------------------------
(* Specification of the segmenter as a function of its input *)

SegInit ==
    /\ telemetry \in {Expand(r) : r \in RunSeqs}
    /\ sections = <<>>
    /\ analyzed = <<>>
    /\ segPc = "input"
    /\ RecIdle
    /\ TrkIdle
    /\ CornerIdle

Detect ==
    /\ segPc = "input"
    /\ sections' = DetectTrackSections(telemetry)
    /\ segPc' = "detected"
    /\ UNCHANGED <<telemetry, analyzed>>
    /\ UNCHANGED <<recVars, trkVars, cornerVars>>

Analyze ==
    /\ segPc = "detected"
    /\ analyzed' = AnalyzeTrackSections(sections)
    /\ segPc' = "analyzed"
    /\ UNCHANGED <<telemetry, sections>>
    /\ UNCHANGED <<recVars, trkVars, cornerVars>>

SegNext == Detect \/ Analyze

SpecSeg == SegInit /\ [][SegNext]_vars

\* The segmenter over laps of more and shorter runs, for the merge pass
MaxMergeRuns == 5

\* run lengths on both sides of the 5-sample threshold; neighbouring runs of
\* one class make the longer ones
MergeRunLens == {4, 5}

MergeRunSeqs == UNION {[1..n -> [cls : Classes, len : MergeRunLens]] : n \in 0..MaxMergeRuns}

MergeInit ==
    /\ telemetry \in {Expand(r) : r \in MergeRunSeqs}
    /\ sections = <<>>
    /\ analyzed = <<>>
    /\ segPc = "input"
    /\ RecIdle
    /\ TrkIdle
    /\ CornerIdle

MergeNext == Detect

SpecMerge == MergeInit /\ [][MergeNext]_vars

(* Specification of the section analysis over sections of 1..MaxPoints points *)

PointSet == [g_force_lat : {50}, steering : {0}, speed : SpeedSet, n_tires_out : TiresOutSet]

PointSeqs == UNION {[1..n -> PointSet] : n \in 1..MaxPoints}

AnaInit ==
    /\ telemetry \in PointSeqs
    /\ \E t \in {"corner", "straight"} :
          sections = << Section(t, 0, Len(telemetry) - 1, telemetry,
                                IF t = "corner" THEN "right" ELSE "none") >>
    /\ analyzed = <<>>
    /\ segPc = "detected"
    /\ RecIdle
    /\ TrkIdle
    /\ CornerIdle

AnaNext == Analyze

SpecAna == AnaInit /\ [][AnaNext]_vars

----------------------------------------------------------------------------
(* Specification of the corner analysis as a function of the session's laps *)

CornerInit ==
    /\ session_laps \in UNION {[1..n -> SessionLapSet] : n \in SessionLapCounts}
    /\ recommendations = <<>>
    /\ cornerPc = "input"
    /\ SegIdle
    /\ RecIdle
    /\ TrkIdle

AnalyzeSessionCorners ==
    /\ cornerPc = "input"
    /\ recommendations' = CornerRecommendations(session_laps)
    /\ cornerPc' = "analyzed"
    /\ UNCHANGED session_laps
    /\ UNCHANGED <<segVars, recVars, trkVars>>

CornerNext == AnalyzeSessionCorners

SpecCorner == CornerInit /\ [][CornerNext]_vars

----------------------------------------------------------------------------
(* Properties of the segmenter *)

RECURSIVE SumPoints(_)
SumPoints(secs) ==
    IF secs = <<>> THEN 0 ELSE Len(secs[1].points) + SumPoints(Tail(secs))

\* ordered, contiguous, non-overlapping cover of the sample indices 0..n-1
IsCover(secs, n) ==
    IF n = 0 THEN secs = <<>>
    ELSE /\ secs # <<>>
         /\ secs[1].start_idx = 0
         /\ Last(secs).end_idx = n - 1
         /\ \A k \in 1..Len(secs) : secs[k].start_idx <= secs[k].end_idx
         /\ \A k \in 1..(Len(secs) - 1) : secs[k + 1].start_idx = secs[k].end_idx + 1

\* tel[lo..hi] (1-based, non-empty) are all of point type t
AllOfType(tel, lo, hi, t) ==
    /\ lo <= hi
    /\ \A k \in lo..hi : PointType(tel[k]) = t

\* tel[lo..hi] are corner samples of the one direction d
CornerRun(tel, lo, hi, d) ==
    /\ AllOfType(tel, lo, hi, "corner")
    /\ \A k \in lo..hi : NewDirection(tel[k]) = d

\* a non-empty straight run, a corner run of c samples, a non-empty straight run
StraightCornerStraight(tel, c) ==
    \E a \in 1..Len(tel) :
        /\ c >= 1
        /\ a + c < Len(tel)
        /\ AllOfType(tel, 1, a, "straight")
        /\ AllOfType(tel, a + 1, a + c, "corner")
        /\ AllOfType(tel, a + c + 1, Len(tel), "straight")

\* a corner run of direction d1, a straight run of s samples, a corner run of
\* direction d2
CornerStraightCorner(tel, s, d1, d2) ==
    \E a \in 1..Len(tel) :
        /\ s >= 1
        /\ a + s < Len(tel)
        /\ CornerRun(tel, 1, a, d1)
        /\ AllOfType(tel, a + 1, a + s, "straight")
        /\ CornerRun(tel, a + s + 1, Len(tel), d2)

Directions == {"left", "right"}

CornerCount(secs) == Cardinality({k \in 1..Len(secs) : secs[k].type = "corner"})

\* C1: the returned Sections are an ordered, contiguous, non-overlapping
\* cover of the input (first starts at index 0, each next one at the previous
\* end + 1, the last ends at the last index) and their point counts add up to
\* the number of input samples.
C1_SectionsPartitionInput ==
    segPc = "detected" =>
        /\ IsCover(sections, Len(telemetry))
        /\ SumPoints(sections) = Len(telemetry)

\* C8: straight run, corner run shorter than 5 samples, straight run is
\* segmented into exactly one straight Section.
C8_ShortCornerAbsorbed ==
    (segPc = "detected"
        /\ \E c \in 1..(MinSectionPoints - 1) : StraightCornerStraight(telemetry, c))
    => (Len(sections) = 1 /\ sections[1].type = "straight")

\* C9: corner run, straight run of fewer than 15 samples, corner run of the
\* same direction is segmented into a single corner Section; with different
\* directions the output has two distinct corner Sections.
C9_ShortStraightBridged ==
    segPc = "detected" =>
        \A s \in 1..(ShortStraightPoints - 1) : \A d1, d2 \in Directions :
            CornerStraightCorner(telemetry, s, d1, d2) =>
                IF d1 = d2
                THEN Len(sections) = 1 /\ sections[1].type = "corner"
                ELSE CornerCount(sections) = 2

\* C10: an empty sample list yields no Section; a non-empty lap without any
\* corner sample yields exactly one straight Section spanning all samples.
C10_EmptyAndAllStraight ==
    segPc = "detected" =>
        /\ (telemetry = <<>> => sections = <<>>)
        /\ (AllOfType(telemetry, 1, Len(telemetry), "straight") =>
                /\ Len(sections) = 1
                /\ sections[1].type = "straight"
                /\ sections[1].start_idx = 0
                /\ sections[1].end_idx = Len(telemetry) - 1
                /\ Len(sections[1].points) = Len(telemetry))

----------------------------------------------------------------------------
(* Properties of the section analysis *)

InvalidCorner(a) == a.type = "corner" /\ ~a.is_valid

\* C7 as stated: recommendedSpeed is exactly 1.15 * m when 0 < m < e and
\* 1.15 * m < e, and exactly 0.85 * e otherwise (both sides in thousandths of
\* km/h).
C7_RecommendedSpeedExact ==
    segPc = "analyzed" =>
        \A k \in 1..Len(analyzed) :
            InvalidCorner(analyzed[k]) =>
                LET e == analyzed[k].entry_speed
                    m == analyzed[k].min_speed
                IN  analyzed[k].recommended_speed * 100 =
                        IF 0 < m /\ m < e /\ 115 * m < 100 * e
                        THEN 115 * m ELSE 85 * e

\* C7 (amended): recommendedSpeed is 1.15 * m rounded to one decimal when
\* 0 < m < e and that rounded value is below e, and 0.85 * e rounded to one
\* decimal in every other case; e = 120, m = 80 gives 92.0 and e = 100, m = 0
\* gives 85.0.
C7_RecommendedSpeedRounded ==
    segPc = "analyzed" =>
        \A k \in 1..Len(analyzed) :
            InvalidCorner(analyzed[k]) =>
                LET e == analyzed[k].entry_speed
                    m == analyzed[k].min_speed
                    r == analyzed[k].recommended_speed
                IN  /\ r = IF 0 < m /\ m < e /\ RoundDiv(115 * m, 100) < e
                           THEN RoundDiv(115 * m, 100)
                           ELSE RoundDiv(85 * e, 100)
                    /\ (e = 1200 /\ m = 800 => r = 920)
                    /\ (e = 1000 /\ m = 0 => r = 850)

C7_Witness ==
    /\ segPc = "analyzed"
    /\ \E k \in 1..Len(analyzed) :
        /\ InvalidCorner(analyzed[k])
        /\ analyzed[k].entry_speed = 1200
        /\ analyzed[k].min_speed = 800
        /\ analyzed[k].recommended_speed = 920

----------------------------------------------------------------------------
(* Properties of the personal records *)

SubmittedTimes(p) == [k \in 1..Len(submitted[p]) |-> submitted[p][k].lap_time]

\* the first submission for p whose lap time is the lowest submitted so far
FirstBest(p) ==
    LET best == SeqMin(SubmittedTimes(p))
        k == CHOOSE i \in 1..Len(submitted[p]) :
                /\ submitted[p][i].lap_time = best
                /\ \A j \in 1..(i - 1) : submitted[p][j].lap_time # best
    IN  submitted[p][k]

\* C6: after any sequence of updates for one track/vehicle pair the stored
\* best lap time is the minimum of the lap times submitted so far: the first
\* update creates the Record, a strictly lower time replaces it, an equal or
\* higher time leaves it unchanged, so the Record is the one of the first
\* submission that reached the minimum ([32.1, 31.9] and [31.9, 32.1] both end
\* with 31.9).
C6_BestIsMinimumSubmitted ==
    \A p \in Pairs :
        /\ personal_records[p].present <=> submitted[p] # <<>>
        /\ submitted[p] # <<>> =>
              /\ personal_records[p].best_lap_time = SeqMin(SubmittedTimes(p))
              /\ personal_records[p].session_id = FirstBest(p).session_id
        /\ SubmittedTimes(p) \in {<<321, 319>>, <<319, 321>>} =>
              personal_records[p].best_lap_time = 319

C6_Witness ==
    /\ SubmittedTimes("monza/bmw") = <<321, 319, 319>>
    /\ personal_records["monza/bmw"].best_lap_time = 319
    /\ personal_records["monza/bmw"].session_id = 2

----------------------------------------------------------------------------
(* Properties of the session and lap tracker *)

\* C2: validity latching.  Once a sample with raw valid flag false has been
\* processed in a lap, the tracked validity stays false for every later
\* sample of the lap, also when the raw flag is true again; a lap whose raw
\* flags were false, true, false is finalized with isValid = false.
C2_ValidityLatches ==
    /\ hist.invalid_seen => ~sys.current_lap_valid
    /\ hist.finalized # NoneId =>
          /\ hist.finalized_invalid_seen => ~db.laps[hist.finalized].is_valid
          /\ hist.finalized_pattern = 3 => ~db.laps[hist.finalized].is_valid

C2_Witness ==
    /\ hist.finalized # NoneId
    /\ hist.finalized_pattern = 3
    /\ db.laps[hist.finalized].lap_time > 0
    /\ ~db.laps[hist.finalized].is_valid

\* C3: a lap during which every processed sample had raw valid flag true is
\* finalized with isValid = true, for every finalized lap of every session.
C3_AllValidLapIsValid ==
    (hist.finalized # NoneId /\ ~hist.finalized_invalid_seen)
        => db.laps[hist.finalized].is_valid

\* a pass of the monitor loop that processes a sample of the running session
\* in which the completed-lap counter has gone up
CompletionPass ==
    /\ reader_connected
    /\ sys.in_race
    /\ ac.in_race
    /\ ac.session_index = sys.last_session_index
    /\ ac.session_type = sys.current_session_type
    /\ (sys.car_has_moved \/ ac.speed > MoveThreshold)
    /\ ac.completed_laps > sys.last_completed_lap
    /\ sys' # sys

\* C4: a lap completion processed while ignoreFirstLap is set and
\* currentLapNumber = -1 finalizes no Lap row, creates no Lap row, leaves
\* currentLapNumber at -1 and clears ignoreFirstLap; the next lap completion
\* finalizes the first Lap row of the session, whose lapNumber (the 1-based
\* display number) is 1.
C4_FirstLapDiscard ==
    [][/\ (CompletionPass /\ sys.ignore_first_lap /\ sys.current_lap_number = -1) =>
            /\ db'.laps = db.laps
            /\ events' = events
            /\ sys'.current_lap_id = sys.current_lap_id
            /\ sys'.current_lap_number = -1
            /\ ~sys'.ignore_first_lap
       /\ (CompletionPass /\ ~sys.ignore_first_lap /\ sys.current_lap_number = -1) =>
            /\ db.laps[sys.current_lap_id].lap_time = 0
            /\ db'.laps[sys.current_lap_id].lap_time > 0
            /\ db'.laps[sys.current_lap_id].lap_number = 1
            /\ \A k \in 1..Len(db.laps) :
                  db.laps[k].session_id = sys.current_session_id
                      => k = sys.current_lap_id]_vars

\* a practice session in which the first completion was discarded and the
\* next one has just finalized the Lap row numbered 1
C4_Witness ==
    /\ sys.in_race
    /\ IsPractice(sys.current_session_type)
    /\ ~sys.ignore_first_lap
    /\ sys.current_lap_number = 0
    /\ hist.finalized # NoneId
    /\ db.laps[hist.finalized].session_id = sys.current_session_id
    /\ db.laps[hist.finalized].lap_number = 1
    /\ db.laps[hist.finalized].lap_time > 0

\* the messages broadcast by the step
NewEvents == SubSeq(events', Len(events) + 1, Len(events'))

\* a pass of the monitor loop that sees another session index or kind than
\* the one of the session being tracked
RestartPass ==
    /\ reader_connected
    /\ sys.in_race
    /\ (ac.session_index # sys.last_session_index
        \/ ac.session_type # sys.current_session_type)
    /\ sys' # sys

\* exactly one race_end, of the tracked session, and before any race_start
EndsOnceFirst ==
    /\ NewEvents # <<>>
    /\ NewEvents[1].type = "race_end"
    /\ NewEvents[1].session_id = sys.current_session_id
    /\ \A k \in 2..Len(NewEvents) : NewEvents[k].type # "race_end"

\* race_start and race_end alternate, starting with race_start
RECURSIVE Alternate(_, _)
Alternate(evs, open) ==
    IF evs = <<>> THEN TRUE
    ELSE IF evs[1].type = "race_start" THEN ~open /\ Alternate(Tail(evs), TRUE)
    ELSE IF evs[1].type = "race_end" THEN open /\ Alternate(Tail(evs), FALSE)
    ELSE Alternate(Tail(evs), open)

PassStep == ac' = ac

\* the messages of one type among those broadcast by the step
RECURSIVE OfType(_, _)
OfType(evs, type) ==
    IF evs = <<>> THEN <<>>
    ELSE IF evs[1].type = type THEN <<evs[1]>> \o OfType(Tail(evs), type)
    ELSE OfType(Tail(evs), type)

\* C11: when analyze_session raises at the end of a session the pass still
\* broadcasts one race_end for that session, carrying the degraded result
\* (analysis_complete = false and the cause as recommendation); the session
\* and lap identifiers of the ended session are released (None when the
\* simulator is out of session), and the tracker and the database are left
\* exactly as when the analysis returns, so later samples and sessions are
\* processed alike.
C11_AnalysisFailureContained ==
    [][(PassStep /\ hist'.analysis_raised) =>
          /\ Len(OfType(NewEvents, "race_end")) = 1
          /\ OfType(NewEvents, "race_end")[1].session_id = sys.current_session_id
          /\ OfType(NewEvents, "race_end")[1].analysis = "error"
          /\ sys'.current_session_id # sys.current_session_id
          /\ sys'.current_lap_id # sys.current_lap_id
          /\ ~ac.in_race =>
                /\ ~sys'.in_race
                /\ sys'.current_session_id = NoneId
                /\ sys'.current_lap_id = NoneId
          /\ sys' = MonitorPass(World, TRUE, ac).sys
          /\ db' = MonitorPass(World, TRUE, ac).db]_vars

\* a session whose analysis failed, and a lap of a later session recorded
C11_Witness ==
    \E i, j \in 1..Len(events) :
        /\ i < j
        /\ events[i].type = "race_end"
        /\ events[i].analysis = "error"
        /\ events[j].type = "lap_complete"
        /\ events[j].session_id > events[i].session_id
        /\ events[j].lap_time > 0

\* C12: when insert_telemetry_batch fails while stream_telemetry processes a
\* sample, that sample is still broadcast to the clients.
C12_FlushFailureStillBroadcasts ==
    (hist.flush_failed /\ sys.in_race) => hist.broadcast

\* the corners of the last completed lap
LastLapCorners == IdentifyCorners(session_laps[LastLap(session_laps)].telemetry)

LapCompletionProcessed ==
    \/ hist'.finalized # NoneId
    \/ Len(db'.laps) - Len(db.laps) > Len(db'.sessions) - Len(db.sessions)
    \/ OfType(NewEvents, "lap_complete") # <<>>

\* C14: a lap completion is processed only on a sample whose completed-lap
\* counter is above the one of the sample before it (or of the session
\* start); so in a session whose counter never changes none is processed.
C14_CompletionOnlyOnIncrement ==
    [][(PassStep /\ LapCompletionProcessed) => hist'.incremented]_vars

\* C15: in a practice session the first increment of the source's lap
\* counter after the session start finalizes no Lap row.
C15_PracticeFirstCrossingDiscarded ==
    [][(PassStep /\ hist'.first_increment /\ IsPractice(sys'.current_session_type))
          => hist'.finalized = NoneId]_vars

\* C16: a pass that emits lap_complete has finalized the Lap row of the lap
\* just completed (lap_time > 0) before.
C16_LapCompleteAfterFinalize ==
    [][(PassStep /\ OfType(NewEvents, "lap_complete") # <<>>) =>
          /\ hist'.finalized # NoneId
          /\ db'.laps[hist'.finalized].lap_time > 0]_vars

\* C17: is_valid of a lap_complete message equals is_valid written to the
\* Lap row finalized for that completion.
C17_EventCarriesLatchedValidity ==
    [][(PassStep /\ OfType(NewEvents, "lap_complete") # <<>> /\ hist'.finalized # NoneId) =>
          OfType(NewEvents, "lap_complete")[1].is_valid
              = db'.laps[hist'.finalized].is_valid]_vars

\* the Lap rows of one session, in creation order
SessionLaps(laps, session_id) == SelectSeq(laps, LAMBDA row : row.session_id = session_id)

FinalizedCount(laps, session_id) ==
    Len(SelectSeq(laps, LAMBDA row : row.session_id = session_id /\ row.lap_time > 0))

\* C18: after a processed lap completion the session's total_laps equals
\* the number of its Lap rows that have been finalized.
C18_TotalLapsCountsFinalized ==
    [][(PassStep /\ OfType(NewEvents, "lap_complete") # <<>>) =>
          db'.sessions[sys'.current_session_id].total_laps
              = FinalizedCount(db'.laps, sys'.current_session_id)]_vars

\* C19: the Lap rows of a session are numbered 1, 2, 3, ... in creation
\* order.
C19_LapNumbersDistinctInOrder ==
    \A sid \in 1..Len(db.sessions) :
        \A k \in 1..Len(SessionLaps(db.laps, sid)) :
            SessionLaps(db.laps, sid)[k].lap_number = k

\* the step is a pass in which stream_telemetry runs
StreamPass == PassStep /\ reader_connected' /\ ac.in_race

\* ... for the session that was already tracked
RunningPass == StreamPass /\ sys.in_race /\ ~SessionChanged(World, ac)

\* the samples persisted or waiting in the write-behind buffer
Stored(d, s) == d.telemetry \o s.lap_telemetry_buffer

\* the row stream_telemetry buffers for the sample of this pass
SampleRow == [lap_id |-> sys'.current_lap_id, speed |-> ac.speed]

\* C20: as long as no sample with speed > 5 has been seen in the session, a
\* sample is broadcast, no sample of the current lap is buffered or
\* persisted, and the lap counter, sector and validity state, the tables and
\* the lifecycle messages stay as they are; once such a sample has been
\* seen, every sample is broadcast and appended to the write-behind buffer
\* (or persisted by the flush that follows the append).
C20_MoveGate ==
    [][/\ (StreamPass /\ ~sys'.car_has_moved) =>
            /\ hist'.broadcast
            /\ \A k \in 1..Len(Stored(db', sys')) :
                  Stored(db', sys')[k].lap_id # sys'.current_lap_id
       /\ (RunningPass /\ ~sys'.car_has_moved) =>
            /\ db' = db
            /\ events' = events
            /\ sys'.lap_telemetry_buffer = sys.lap_telemetry_buffer
            /\ sys'.current_lap_id = sys.current_lap_id
            /\ sys'.current_lap_number = sys.current_lap_number
            /\ sys'.last_completed_lap = sys.last_completed_lap
            /\ sys'.ignore_first_lap = sys.ignore_first_lap
            /\ sys'.last_sector_index = sys.last_sector_index
            /\ sys'.sector_times = sys.sector_times
            /\ sys'.current_lap_valid = sys.current_lap_valid
       /\ (StreamPass /\ sys'.car_has_moved /\ sys'.current_lap_id # NoneId) =>
            /\ hist'.broadcast
            /\ Stored(db', sys') # <<>>
            /\ Last(Stored(db', sys')) = SampleRow
            /\ IF RunningPass /\ ~hist'.discarded
               THEN Len(Stored(db', sys')) = Len(Stored(db, sys)) + 1
               ELSE sys'.lap_telemetry_buffer = <<SampleRow>>]_vars

\* the car stood still for a pass, then moved, and two samples are buffered
C20_Witness ==
    /\ sys.in_race
    /\ sys.car_has_moved
    /\ hist.broadcast
    /\ Len(sys.lap_telemetry_buffer) >= 2
    /\ Len(events) = 1

C22_SectorTimesOfTheLap ==
    [][/\ (PassStep /\ hist'.finalized # NoneId) =>
            db'.laps[hist'.finalized].sector_times = hist'.finalized_sectors
       \* a sample within a lap: the sector just finished is recorded if the
       \* index changed and the reported duration is positive
       /\ (RunningPass /\ sys.car_has_moved /\ ac.completed_laps <= sys.last_completed_lap) =>
            sys'.sector_times =
                IF /\ ac.current_sector_index # sys.last_sector_index
                   /\ sys.last_sector_index \in 0..2
                   /\ ac.last_sector_time > 0
                THEN [sys.sector_times EXCEPT ![sys.last_sector_index + 1] = ac.last_sector_time]
                ELSE sys.sector_times
       \* a lap boundary leaves no sector time behind
       /\ (PassStep /\ (hist'.discarded \/ OfType(NewEvents, "lap_complete") # <<>>)) =>
            sys'.sector_times = NoSectorTimes]_vars

\* two laps of one session finalized: the first with its sector 1 recorded,
\* the second, in which no sector change was seen, with none
C22_Witness ==
    \E i, j \in 1..Len(db.laps) :
        /\ i < j
        /\ db.laps[i].session_id = db.laps[j].session_id
        /\ db.laps[i].lap_time > 0
        /\ db.laps[j].lap_time > 0
        /\ db.laps[i].sector_times[1] = SectorMs
        /\ db.laps[j].sector_times = NoSectorTimes

\* the pass sees that the simulator has left the session being tracked
EndPass == PassStep /\ reader_connected' /\ sys.in_race /\ ~ac.in_race

\* C23: a pass that finds the simulator out of the tracked session writes
\* every buffered sample to the store, marks the session ended, broadcasts
\* race_end for it and leaves the tracker idle with no session and no lap
\* identifier; and a pass creates a new session only if the tracker held
\* no session identifier or the same pass has ended that session before.
C23_SessionEndReleases ==
    [][/\ EndPass =>
            /\ db'.telemetry = db.telemetry \o sys.lap_telemetry_buffer
            /\ sys'.lap_telemetry_buffer = <<>>
            /\ db'.sessions[sys.current_session_id].ended
            /\ Len(OfType(NewEvents, "race_end")) = 1
            /\ OfType(NewEvents, "race_end")[1].session_id = sys.current_session_id
            /\ ~sys'.in_race
            /\ sys'.current_session_id = NoneId
            /\ sys'.current_lap_id = NoneId
       /\ (PassStep /\ Len(db'.sessions) > Len(db.sessions)
                    /\ sys.current_session_id # NoneId) =>
            /\ db'.sessions[sys.current_session_id].ended
            /\ NewEvents[1].type = "race_end"
            /\ NewEvents[1].session_id = sys.current_session_id]_vars

\* C24: whenever the tracker is in a session it holds the identifier of a
\* Session row that has not ended and of a provisional Lap row of that
\* session.
C24_InSessionHoldsRows ==
    sys.in_race =>
        /\ sys.current_session_id \in 1..Len(db.sessions)
        /\ ~db.sessions[sys.current_session_id].ended
        /\ sys.current_lap_id \in 1..Len(db.laps)
        /\ db.laps[sys.current_lap_id].session_id = sys.current_session_id
        /\ db.laps[sys.current_lap_id].lap_time = 0

\* C25: every returned Section of type corner has direction left or right,
\* and every returned Section of type straight has no direction.
C25_DirectionOnCornersOnly ==
    segPc = "detected" =>
        \A k \in 1..Len(sections) :
            /\ sections[k].type = "corner" => sections[k].direction \in Directions
            /\ sections[k].type = "straight" => sections[k].direction = "none"

\* the samples of a Section that are classified corner, by direction
CornerSamples(sec, d) ==
    {k \in 1..Len(sec.points) : NewDirection(sec.points[k]) = d}

\* C26: no returned corner Section holds corner samples of both directions.
C26_OneDirectionPerCorner ==
    segPc = "detected" =>
        \A k \in 1..Len(sections) :
            sections[k].type = "corner" =>
                (CornerSamples(sections[k], "left") = {}
                 \/ CornerSamples(sections[k], "right") = {})

\* C27: no two adjacent returned Sections have the same type and the same
\* direction.
C27_NoEqualNeighbours ==
    segPc = "detected" =>
        \A k \in 1..(Len(sections) - 1) :
            ~(/\ sections[k].type = sections[k + 1].type
              /\ sections[k].direction = sections[k + 1].direction)

\* the sections before the merge pass hold two neighbours of the same type
\* and direction, which the merge pass has joined
C27_Witness ==
    /\ segPc = "detected"
    /\ Len(sections) < Len(RawSections(telemetry))
    /\ \E k \in 1..(Len(RawSections(telemetry)) - 1) :
          /\ RawSections(telemetry)[k].type = RawSections(telemetry)[k + 1].type
          /\ RawSections(telemetry)[k].direction = RawSections(telemetry)[k + 1].direction

\* C30: the noise merge applied to the returned Sections returns them
\* unchanged.
C30_MergeIdempotent ==
    segPc = "detected" => MergeTrackSections(sections) = sections

\* C28: when analyze_session has failed (the session is reported with
\* analysis_complete = false), the personal records and the section records
\* are as they were before that analysis.
C28_RecordsAllOrNothing ==
    analysisPc = "failed" =>
        /\ personal_records = pending.personal_before
        /\ section_records = pending.sections_before

\* the stored and buffered samples of one lap
LapRows(rows, lap_id) == SelectSeq(rows, LAMBDA row : row.lap_id = lap_id)

====
